---------------------------- MODULE Spec2Model ----------------------------
(***************************************************************************)
(* Model of app/run.py: launching a container from a pulled image.         *)
(*                                                                         *)
(* One launch is one call of main: the parent (RunCommand.execute) clones  *)
(* a child, the child (ContainerExecuter.execute) sets the container up    *)
(* and execs the command, the parent waits and prints the wait status.     *)
(*                                                                         *)
(* Paths are tuples of path components: os.path.join is \o.  The disk is   *)
(* the set of paths that exist on the host's filesystem; every mount       *)
(* namespace has its own mount table, and a path is resolved through the   *)
(* mount table of the process that uses it.                                *)
(*                                                                         *)
(* The calls into the third-party `linux` extension and into Python's os   *)
(* module are modelled by what the kernel and the library do:              *)
(*   - linux.* raise RuntimeError when the system call fails, os.* raise   *)
(*     OSError (FileExistsError, FileNotFoundError for EEXIST, ENOENT);    *)
(*   - linux.clone runs the callback in the child; when the callback       *)
(*     raises, the child prints the traceback and returns -1 from the      *)
(*     clone function, so the child terminates with exit code 255;         *)
(*   - os.makedirs(name) first creates the missing parents (swallowing     *)
(*     FileExistsError there), then mkdir(name).                           *)
(***************************************************************************)
EXTENDS Integers, Sequences, FiniteSets, TLC

VARIABLES
    disk,        \* the paths that exist on the host's disk
    hostMnt,     \* the mount table of the host's mount namespace
    hostShared,  \* whether the host's mounts are shared (propagating)
    hostHostname,\* the hostname in the host's UTS namespace
    argv,        \* the command line of each launch (sys.argv[1:])
    ppc,         \* parent: position in main / RunCommand.execute, per launch
    params,      \* the ContainerInitParams main built, per launch
    reported,    \* what RunCommand.execute printed, per launch
    stmt,        \* child: the statement of ContainerExecuter.execute it is at
    cpc,         \* child: position inside the function that statement calls
    idx,         \* child: index of the running for-loop
    mk,          \* child: the os.makedirs call in progress
    term,        \* child: how it terminated
    err,         \* child: the exception that ended execute
    hostname,    \* child: hostname in its UTS namespace
    shared,      \* child: whether its mounts still propagate to the host
    mnt,         \* child: the mount table of its mount namespace
    tmpfs,       \* child: the nodes in the tmpfs it mounted at dev
    cwd,         \* child: working directory
    calls        \* the system calls made so far, per launch, in order

vars == <<disk, hostMnt, hostShared, hostHostname, argv, ppc, params, reported,
          stmt, cpc, idx, mk, term, err, hostname, shared, mnt, tmpfs, cwd, calls>>

parentVars == <<argv, ppc, params, reported>>

hostVars == <<hostMnt, hostShared, hostHostname>>

----------------------------------------------------------------------------
\* Bounds

\* The command exits with a code in 0..MaxExitCode or with the code 255.
MaxExitCode == 2

\* The command is killed by a signal in 1..MaxSignal.
MaxSignal == 2

\* The launches: main gives every launch a fresh uuid4 as container id, so a
\* launch is named by its container id.
ContainerIds == {"c1", "c2"}

----------------------------------------------------------------------------
\* Paths

IMAGE_DATA_DIR == <<"var", "opt", "app", "images">>

CONTAINER_DATA_DIR == <<"var", "opt", "app", "container">>

Prefix(p, n) == SubSeq(p, 1, n)

IsPrefix(a, p) == Len(a) <= Len(p) /\ Prefix(p, Len(a)) = a

Suffix(p, n) == SubSeq(p, n + 1, Len(p))

\* Every prefix of p, p included, the root excluded.
Ancestors(p) == {Prefix(p, n) : n \in 1..Len(p)}

\* f'{image.library}_{image.image}_{image.tag}' as one path component.
ImageDirName(image) ==
    CASE image.image = "busybox" /\ image.tag = "latest" -> "library_busybox_latest"
      [] image.image = "alpine" /\ image.tag = "latest"  -> "library_alpine_latest"
      [] OTHER                                          -> "library_image_tag"

_get_image_base_path(image, image_dir) == image_dir \o <<ImageDirName(image)>>

\* Mutant of _get_container_data_base_path: the container id is left out.
_get_container_data_base_path_NoId(container_id, base_path) ==
    base_path \o <<"current">>

_get_container_data_base_path(container_id, base_path) ==
    base_path \o <<container_id>>

ImageRoot(image) ==
    _get_image_base_path(image, IMAGE_DATA_DIR) \o <<"layers", "contents">>

\* The ContainerDir of a container id.
ContainerDir(container_id) ==
    LET base == _get_container_data_base_path(container_id, CONTAINER_DATA_DIR)
    IN  [root_dir |-> base \o <<"rootfs">>,
         rw_dir   |-> base \o <<"cow_rw">>,
         work_dir |-> base \o <<"cow_workdir">>]

ContainerDirSeq(container_id) ==
    LET cd == ContainerDir(container_id)
    IN  <<cd.root_dir, cd.rw_dir, cd.work_dir>>

SystemDirSeq(container_root_dir) ==
    <<container_root_dir \o <<"proc">>,
      container_root_dir \o <<"sys">>,
      container_root_dir \o <<"dev">>>>

\* _init_devices: the symlinks, in the order they are created.
Symlinks ==
    <<[name |-> "stdin",  target |-> <<"proc", "self", "fd", "0">>],
      [name |-> "stdout", target |-> <<"proc", "self", "fd", "1">>],
      [name |-> "stderr", target |-> <<"proc", "self", "fd", "2">>],
      [name |-> "fd",     target |-> <<"proc", "self", "fd">>]>>

\* _init_devices: the device table, in the order of the dict.
Devices ==
    <<[name |-> "null",    major |-> 1,   minor |-> 3],
      [name |-> "zero",    major |-> 1,   minor |-> 5],
      [name |-> "random",  major |-> 1,   minor |-> 8],
      [name |-> "urandom", major |-> 1,   minor |-> 9],
      [name |-> "console", major |-> 136, minor |-> 1],
      [name |-> "tty",     major |-> 5,   minor |-> 0],
      [name |-> "full",    major |-> 1,   minor |-> 7]>>

\* The path an argv[0] names (all commands here are absolute paths).
ExecPath(arg0) ==
    CASE arg0 = "/bin/echo"    -> <<"bin", "echo">>
      [] arg0 = "/bin/missing" -> <<"bin", "missing">>
      [] OTHER                 -> <<arg0>>

----------------------------------------------------------------------------
\* Mount tables and path resolution

\* A mount: what is mounted, where (a path in the namespace's current root),
\* by which launch ("host": mounted before any launch), with which flags; an
\* overlay also has its lower, upper and work directory (paths on the disk).
Mount(fstype, at, by, flags, lower, upper, work) ==
    [fstype |-> fstype, at |-> at, by |-> by, flags |-> flags,
     lower |-> lower, upper |-> upper, work |-> work]

HostRootMount == Mount("disk", <<>>, "host", {}, <<>>, <<>>, <<>>)

\* The mount a path resolves into: the deepest mount point above it.
MountOf(table, p) ==
    LET over == {m \in table : IsPrefix(m.at, p)}
    IN  CHOOSE m \in over : \A o \in over : Len(o.at) <= Len(m.at)

Covered(table, p) == \E m \in table : IsPrefix(m.at, p)

\* os.path.exists(p), seen through a mount table.
ExistsIn(table, p, d, t) ==
    /\ Covered(table, p)
    /\ LET m == MountOf(table, p)
           rel == Suffix(p, Len(m.at))
       IN  CASE m.fstype = "disk"    -> rel = <<>> \/ rel \in d
             [] m.fstype = "overlay" ->
                    \/ rel = <<>>
                    \/ m.lower \o rel \in d
                    \/ m.upper \o rel \in d
             [] m.fstype = "tmpfs"   ->
                    rel = <<>> \/ \E n \in t[m.by] : n.path = rel
             [] OTHER                -> rel = <<>>

\* A path as the process sees it.
Exists(l, p) == ExistsIn(mnt[l], p, disk, tmpfs)

\* A node of a tmpfs.
Node(path, kind, target, major, minor, mode) ==
    [path |-> path, kind |-> kind, target |-> target,
     major |-> major, minor |-> minor, mode |-> mode]

----------------------------------------------------------------------------
\* The state before any launch

\* The directory the launcher is started in.
HostCwd == <<"var", "opt", "app">>

Busybox == [library |-> "library", image |-> "busybox", tag |-> "latest"]

\* What `pull` may have left under layers/contents of the pulled image.
ImageLayouts ==
    { {<<"bin">>, <<"bin", "echo">>},
      {<<"bin">>, <<"bin", "echo">>, <<"proc">>, <<"sys">>, <<"dev">>,
       <<"dev", "pts">>},
      {<<"bin">>, <<"bin", "echo">>, <<"old_root">>} }

\* The disk with the busybox image pulled and the given layout extracted.
DiskWith(layout, dataRoot) ==
    Ancestors(ImageRoot(Busybox))
      \cup {ImageRoot(Busybox) \o e : e \in layout}
      \cup (IF dataRoot THEN Ancestors(CONTAINER_DATA_DIR) ELSE {})

\* python run.py <image_name> <command...>
ImageArgs == {"busybox", "alpine", ":"}

Commands == {<<>>, <<"/bin/echo", "hello">>, <<"/bin/missing">>}

ArgvChoices == [image_name : ImageArgs, command : Commands]

NoParams == [image |-> Busybox, command |-> <<>>, container_id |-> ""]

NoTerm == [kind |-> "none", n |-> 0, core |-> FALSE]

NoErr == [exc |-> "none", fn |-> "none", op |-> "none", errno |-> "none"]

NoMk == [phase |-> "idle", name |-> <<>>, cur |-> 0]

NoReport == [pid |-> "", status |-> -1]

\* The launches in `started` have been invoked, the others never are.
InitWith(started, choices) ==
    /\ \E layout \in ImageLayouts, dataRoot \in BOOLEAN :
           disk = DiskWith(layout, dataRoot)
    /\ hostMnt = {HostRootMount}
    /\ hostShared \in BOOLEAN
    /\ hostHostname = "host"
    /\ argv \in [ContainerIds -> choices]
    /\ \A l \in ContainerIds \ started : argv[l] = CHOOSE c \in choices : TRUE
    /\ ppc = [l \in ContainerIds |-> IF l \in started THEN "main" ELSE "idle"]
    /\ params = [l \in ContainerIds |-> NoParams]
    /\ reported = [l \in ContainerIds |-> NoReport]
    /\ stmt = [l \in ContainerIds |-> 0]
    /\ cpc = [l \in ContainerIds |-> "none"]
    /\ idx = [l \in ContainerIds |-> 0]
    /\ mk = [l \in ContainerIds |-> NoMk]
    /\ term = [l \in ContainerIds |-> NoTerm]
    /\ err = [l \in ContainerIds |-> NoErr]
    /\ hostname = [l \in ContainerIds |-> ""]
    /\ shared = [l \in ContainerIds |-> FALSE]
    /\ mnt = [l \in ContainerIds |-> {}]
    /\ tmpfs = [l \in ContainerIds |-> {}]
    /\ cwd = [l \in ContainerIds |-> <<>>]
    /\ calls = [l \in ContainerIds |-> <<>>]

Init == InitWith({"c1"}, ArgvChoices)

----------------------------------------------------------------------------
\* The parent: main and RunCommand.execute

\* re.match of main's pattern on args[1]: the groups, or no match.
MatchImageArg(a) ==
    CASE a = "busybox" -> [ok |-> TRUE, library |-> "", image |-> "busybox", tag |-> ""]
      [] a = "alpine"  -> [ok |-> TRUE, library |-> "", image |-> "alpine", tag |-> ""]
      [] OTHER         -> [ok |-> FALSE, library |-> "", image |-> "", tag |-> ""]

\* The namespaces RunCommand.execute asks clone for.
CloneFlags == {"CLONE_NEWPID", "CLONE_NEWNS", "CLONE_NEWUTS", "CLONE_NEWNET"}

\* A call is logged with the process that made it, the statement it belongs
\* to, its path argument and its result: "ok", "failed" (it raised), or
\* "caught" (it raised and the caller caught the exception).
Log(l, by, fn, op, res, path) ==
    calls' = [calls EXCEPT ![l] =
                Append(@, [by |-> by, fn |-> fn, op |-> op, res |-> res, path |-> path])]

\* main: parse the arguments, build the ContainerInitParams, call
\* RunCommand.execute; "invalid args" ends the program with exit code 1.
Main(l) ==
    /\ ppc[l] = "main"
    /\ LET m == MatchImageArg(argv[l].image_name)
       IN  \/ /\ ~m.ok
              /\ ppc' = [ppc EXCEPT ![l] = "invalid_args"]
              /\ UNCHANGED params
           \/ /\ m.ok
              /\ params' = [params EXCEPT ![l] =
                   [image |-> [library |-> IF m.library # "" THEN m.library ELSE "library",
                               image   |-> m.image,
                               tag     |-> IF m.tag # "" THEN m.tag ELSE "latest"],
                    command |-> argv[l].command,
                    container_id |-> l]]
              /\ ppc' = [ppc EXCEPT ![l] = "clone"]
    /\ UNCHANGED <<disk, hostVars, argv, reported, stmt, cpc, idx, mk, term, err,
                   hostname, shared, mnt, tmpfs, cwd, calls>>

\* pid = linux.clone(ContainerExecuter().execute, flags, (init_params,)):
\* the child starts in copies of the parent's namespaces; a failing clone
\* raises in the parent.
Clone(l) ==
    /\ ppc[l] = "clone"
    /\ \/ /\ ppc' = [ppc EXCEPT ![l] = "waitpid"]
          /\ stmt' = [stmt EXCEPT ![l] = 1]
          /\ cpc' = [cpc EXCEPT ![l] = "entry"]
          /\ mnt' = [mnt EXCEPT ![l] =
                 IF "CLONE_NEWNS" \in CloneFlags THEN hostMnt ELSE {}]
          /\ shared' = [shared EXCEPT ![l] = hostShared]
          /\ hostname' = [hostname EXCEPT ![l] = hostHostname]
          /\ cwd' = [cwd EXCEPT ![l] = HostCwd]
          /\ Log(l, "parent", "RunCommand.execute", "clone", "ok", <<>>)
       \/ /\ ppc' = [ppc EXCEPT ![l] = "raised"]
          /\ Log(l, "parent", "RunCommand.execute", "clone", "failed", <<>>)
          /\ UNCHANGED <<stmt, cpc, mnt, shared, hostname, cwd>>
    /\ UNCHANGED <<disk, hostVars, argv, params, reported, idx, mk, term, err, tmpfs>>

\* The status os.waitpid returns: the exit code in the high byte, or the
\* signal in the low seven bits with the core flag above them.
WaitStatus(t) ==
    IF t.kind = "exit" THEN (t.n % 256) * 256
    ELSE t.n + (IF t.core THEN 128 ELSE 0)

\* Mutant of Waitpid: os.waitpid(pid, os.WNOHANG), which does not block.
Waitpid_NoHang(l) ==
    /\ ppc[l] = "waitpid"
    /\ ppc' = [ppc EXCEPT ![l] = "print"]
    /\ reported' = [reported EXCEPT ![l] = [pid |-> "", status |-> WaitStatus(term[l])]]
    /\ Log(l, "parent", "RunCommand.execute", "waitpid", "ok", <<>>)
    /\ UNCHANGED <<disk, hostVars, argv, params, stmt, cpc, idx, mk, term, err,
                   hostname, shared, mnt, tmpfs, cwd>>

\* _, status = os.waitpid(pid, 0): returns once the child has terminated.
Waitpid(l) ==
    /\ ppc[l] = "waitpid"
    /\ cpc[l] = "exited"
    /\ ppc' = [ppc EXCEPT ![l] = "print"]
    /\ reported' = [reported EXCEPT ![l] = [pid |-> "", status |-> WaitStatus(term[l])]]
    /\ Log(l, "parent", "RunCommand.execute", "waitpid", "ok", <<>>)
    /\ UNCHANGED <<disk, hostVars, argv, params, stmt, cpc, idx, mk, term, err,
                   hostname, shared, mnt, tmpfs, cwd>>

\* print('{} exited with status {}'.format(pid, status)), and return.
PrintStatus(l) ==
    /\ ppc[l] = "print"
    /\ ppc' = [ppc EXCEPT ![l] = "done"]
    /\ reported' = [reported EXCEPT ![l].pid = l]
    /\ UNCHANGED <<disk, hostVars, argv, params, stmt, cpc, idx, mk, term, err,
                   hostname, shared, mnt, tmpfs, cwd, calls>>

----------------------------------------------------------------------------
\* The child: ContainerExecuter.execute

\* Mutant of ExecuteBody: the system directories are initialised before the
\* image is mounted.
ExecuteBody_DevicesBeforeOverlay ==
    <<"sethostname", "mount_private", "_create_container_root_dir",
      "_init_system_dir", "_mount_image_dir", "_change_root_dir", "execvp">>

\* Mutant of ExecuteBody: / is made private only after the image is mounted.
ExecuteBody_PrivateAfterOverlay ==
    <<"sethostname", "_create_container_root_dir", "_mount_image_dir",
      "mount_private", "_init_system_dir", "_change_root_dir", "execvp">>

\* Mutant of ExecuteBody: the overlay is mounted before the directories are made.
ExecuteBody_OverlayBeforeDirs ==
    <<"sethostname", "mount_private", "_mount_image_dir",
      "_create_container_root_dir", "_init_system_dir", "_change_root_dir", "execvp">>

\* The statements of execute, in order.
ExecuteBody ==
    <<"sethostname", "mount_private", "_create_container_root_dir",
      "_mount_image_dir", "_init_system_dir", "_change_root_dir", "execvp">>

At(l, fn, label) ==
    /\ stmt[l] \in 1..Len(ExecuteBody)
    /\ ExecuteBody[stmt[l]] = fn
    /\ cpc[l] = label

Exit(code) == [kind |-> "exit", n |-> code, core |-> FALSE]

Step(l, s, label, i, m, t, e) ==
    /\ stmt' = [stmt EXCEPT ![l] = s]
    /\ cpc' = [cpc EXCEPT ![l] = label]
    /\ idx' = [idx EXCEPT ![l] = i]
    /\ mk' = [mk EXCEPT ![l] = m]
    /\ term' = [term EXCEPT ![l] = t]
    /\ err' = [err EXCEPT ![l] = e]

\* Go on inside the current function.
Proceed(l, label, i) == Step(l, stmt[l], label, i, NoMk, NoTerm, NoErr)

\* The current function returns: on to the next statement of execute.  When
\* execute itself returns, the clone function returns 0 and the child exits.
Return(l) ==
    IF stmt[l] < Len(ExecuteBody)
    THEN Step(l, stmt[l] + 1, "entry", 0, NoMk, NoTerm, NoErr)
    ELSE Step(l, stmt[l] + 1, "exited", 0, NoMk, Exit(0), NoErr)

\* An exception leaves execute: the clone function prints it and returns -1,
\* the child terminates with exit code 255.
Raise(l, exc, op, errno) ==
    Step(l, stmt[l], "exited", 0, NoMk, Exit(255),
         [exc |-> exc, fn |-> ExecuteBody[stmt[l]], op |-> op, errno |-> errno])

ChildLog(l, op, res, path) == Log(l, "child", ExecuteBody[stmt[l]], op, res, path)

\* linux.sethostname(init_params.container_id)
SetHostname(l) ==
    /\ At(l, "sethostname", "entry")
    /\ \/ /\ hostname' = [hostname EXCEPT ![l] = params[l].container_id]
          /\ Return(l)
          /\ ChildLog(l, "sethostname", "ok", <<>>)
       \/ /\ Raise(l, "RuntimeError", "sethostname", "EPERM")
          /\ ChildLog(l, "sethostname", "failed", <<>>)
          /\ UNCHANGED hostname
    /\ UNCHANGED <<disk, hostVars, parentVars, shared, mnt, tmpfs, cwd>>

\* Mutant of MountPrivate: the call changes no propagation (wrong flags).
MountPrivate_NoEffect(l) ==
    /\ At(l, "mount_private", "entry")
    /\ \/ /\ Return(l)
          /\ ChildLog(l, "mount_private", "ok", <<>>)
       \/ /\ Raise(l, "RuntimeError", "mount_private", "EPERM")
          /\ ChildLog(l, "mount_private", "failed", <<>>)
    /\ UNCHANGED <<disk, hostVars, parentVars, hostname, shared, mnt, tmpfs, cwd>>

\* linux.mount(None, '/', None, linux.MS_PRIVATE | linux.MS_REC, None)
MountPrivate(l) ==
    /\ At(l, "mount_private", "entry")
    /\ \/ /\ shared' = [shared EXCEPT ![l] = FALSE]
          /\ Return(l)
          /\ ChildLog(l, "mount_private", "ok", <<>>)
       \/ /\ Raise(l, "RuntimeError", "mount_private", "EPERM")
          /\ ChildLog(l, "mount_private", "failed", <<>>)
          /\ UNCHANGED shared
    /\ UNCHANGED <<disk, hostVars, parentVars, hostname, mnt, tmpfs, cwd>>

\* mkdir(p) through the process's mount table: where the directory lands.
CanMkdir(l, p) ==
    /\ Covered(mnt[l], p)
    /\ MountOf(mnt[l], p).fstype \in {"disk", "overlay", "tmpfs"}

\* Mutant of DiskAfterMkdir: in an overlay the directory lands in the lower
\* directory.
DiskAfterMkdir_IntoLower(l, p) ==
    LET m == MountOf(mnt[l], p)
        rel == Suffix(p, Len(m.at))
    IN  CASE m.fstype = "disk"    -> disk \cup {rel}
          [] m.fstype = "overlay" -> disk \cup {m.lower \o rel}
          [] OTHER                -> disk

DiskAfterMkdir(l, p) ==
    LET m == MountOf(mnt[l], p)
        rel == Suffix(p, Len(m.at))
    IN  CASE m.fstype = "disk"    -> disk \cup {rel}
          [] m.fstype = "overlay" -> disk \cup {m.upper \o rel}
          [] OTHER                -> disk

TmpfsAfterMkdir(l, p) ==
    LET m == MountOf(mnt[l], p)
        rel == Suffix(p, Len(m.at))
    IN  IF m.fstype = "tmpfs"
        THEN [tmpfs EXCEPT ![m.by] = @ \cup {Node(rel, "dir", <<>>, 0, 0, 0)}]
        ELSE tmpfs

\* The positions at which an os.makedirs call is running.
MakedirsLabels == {"makedirs", "makedirs_devpts", "makedirs_old_root"}

\* os.makedirs(name) starts: its frame looks at the parent of name first.
StartMakedirs(l, name, label) ==
    Step(l, stmt[l], label, idx[l],
         [phase |-> "up", name |-> name, cur |-> Len(name)], NoTerm, NoErr)

\* Where the caller goes on when its os.makedirs call has returned.
AfterMakedirs(l) ==
    CASE At(l, "_create_container_root_dir", "makedirs") ->
           IF idx[l] < 3 THEN Proceed(l, "check", idx[l] + 1) ELSE Return(l)
      [] At(l, "_init_system_dir", "makedirs") ->
           IF idx[l] < 3 THEN Proceed(l, "check", idx[l] + 1)
           ELSE Proceed(l, "mount_proc", 0)
      [] At(l, "_init_system_dir", "makedirs_devpts") -> Proceed(l, "mount_devpts", 0)
      [] OTHER -> Proceed(l, "pivot_root", 0)

\* os.makedirs: `if head and tail and not path.exists(head)`: a missing
\* parent is made first, by a recursive call.
MakedirsUp(l) ==
    /\ stmt[l] \in 1..Len(ExecuteBody)
    /\ cpc[l] \in MakedirsLabels
    /\ mk[l].phase = "up"
    /\ LET head == Prefix(mk[l].name, mk[l].cur - 1)
       IN  \/ /\ ~Exists(l, head)
              /\ mk' = [mk EXCEPT ![l].cur = @ - 1]
           \/ /\ Exists(l, head)
              /\ mk' = [mk EXCEPT ![l].phase = "down"]
    /\ UNCHANGED <<disk, hostVars, parentVars, stmt, cpc, idx, term, err,
                   hostname, shared, mnt, tmpfs, cwd, calls>>

\* Mutant of MakedirsDown: os.makedirs(name, exist_ok=True).
MakedirsDown_ExistOk(l) ==
    /\ stmt[l] \in 1..Len(ExecuteBody)
    /\ cpc[l] \in MakedirsLabels
    /\ mk[l].phase = "down"
    /\ LET name == Prefix(mk[l].name, mk[l].cur)
           outermost == mk[l].cur = Len(mk[l].name)
       IN  \/ /\ ~Exists(l, name)
              /\ CanMkdir(l, name)
              /\ disk' = DiskAfterMkdir(l, name)
              /\ tmpfs' = TmpfsAfterMkdir(l, name)
              /\ ChildLog(l, "mkdir", "ok", name)
              /\ IF outermost THEN AfterMakedirs(l)
                 ELSE Step(l, stmt[l], cpc[l], idx[l], [mk[l] EXCEPT !.cur = @ + 1],
                           NoTerm, NoErr)
           \/ /\ Exists(l, name)
              /\ ChildLog(l, "mkdir", "caught", name)
              /\ IF outermost THEN AfterMakedirs(l)
                 ELSE Step(l, stmt[l], cpc[l], idx[l], [mk[l] EXCEPT !.cur = @ + 1],
                           NoTerm, NoErr)
              /\ UNCHANGED <<disk, tmpfs>>
           \/ /\ ChildLog(l, "mkdir", "failed", name)
              /\ Raise(l, "OSError", "mkdir", "EACCES")
              /\ UNCHANGED <<disk, tmpfs>>
    /\ UNCHANGED <<hostVars, parentVars, hostname, shared, mnt, cwd>>

\* os.makedirs: mkdir(name) of the innermost frame.  FileExistsError from a
\* recursive call is swallowed by the caller (`except FileExistsError: pass`),
\* from the outermost frame it is raised (exist_ok is False); any other
\* OSError is raised from every frame.
MakedirsDown(l) ==
    /\ stmt[l] \in 1..Len(ExecuteBody)
    /\ cpc[l] \in MakedirsLabels
    /\ mk[l].phase = "down"
    /\ LET name == Prefix(mk[l].name, mk[l].cur)
           outermost == mk[l].cur = Len(mk[l].name)
       IN  \/ /\ ~Exists(l, name)
              /\ CanMkdir(l, name)
              /\ disk' = DiskAfterMkdir(l, name)
              /\ tmpfs' = TmpfsAfterMkdir(l, name)
              /\ ChildLog(l, "mkdir", "ok", name)
              /\ IF outermost THEN AfterMakedirs(l)
                 ELSE Step(l, stmt[l], cpc[l], idx[l], [mk[l] EXCEPT !.cur = @ + 1],
                           NoTerm, NoErr)
           \/ /\ Exists(l, name)
              /\ ChildLog(l, "mkdir", IF outermost THEN "failed" ELSE "caught", name)
              /\ IF outermost THEN Raise(l, "FileExistsError", "mkdir", "EEXIST")
                 ELSE Step(l, stmt[l], cpc[l], idx[l], [mk[l] EXCEPT !.cur = @ + 1],
                           NoTerm, NoErr)
              /\ UNCHANGED <<disk, tmpfs>>
           \/ /\ ChildLog(l, "mkdir", "failed", name)
              /\ Raise(l, "OSError", "mkdir", "EACCES")
              /\ UNCHANGED <<disk, tmpfs>>
    /\ UNCHANGED <<hostVars, parentVars, hostname, shared, mnt, cwd>>

\* container_dir = self._create_container_root_dir(init_params.container_id)
CreateContainerRootDir(l) ==
    /\ At(l, "_create_container_root_dir", "entry")
    /\ Proceed(l, "check", 1)
    /\ ChildLog(l, "call", "ok", <<>>)
    /\ UNCHANGED <<disk, hostVars, parentVars, hostname, shared, mnt, tmpfs, cwd>>

\* Mutant of CheckContainerDir: os.makedirs(d) without the os.path.exists test.
CheckContainerDir_NoExistsCheck(l) ==
    /\ At(l, "_create_container_root_dir", "check")
    /\ StartMakedirs(l, ContainerDirSeq(params[l].container_id)[idx[l]], "makedirs")
    /\ UNCHANGED <<disk, hostVars, parentVars, hostname, shared, mnt, tmpfs, cwd, calls>>

\* for d in (rootfs, cow_rw, cow_workdir): if not os.path.exists(d): os.makedirs(d)
CheckContainerDir(l) ==
    /\ At(l, "_create_container_root_dir", "check")
    /\ LET d == ContainerDirSeq(params[l].container_id)[idx[l]]
       IN  \/ /\ Exists(l, d)
              /\ IF idx[l] < 3 THEN Proceed(l, "check", idx[l] + 1) ELSE Return(l)
           \/ /\ ~Exists(l, d)
              /\ StartMakedirs(l, d, "makedirs")
    /\ UNCHANGED <<disk, hostVars, parentVars, hostname, shared, mnt, tmpfs, cwd, calls>>

\* A mount made by launch l appears in l's namespace, and, as long as l's
\* mounts are shared, in the namespaces that are their peers: the host's and
\* those of the children that have not made their mounts private.
Peers(l) ==
    {k \in ContainerIds : k = l \/ (shared[l] /\ shared[k] /\ cpc[k] \notin {"none", "exited"})}

AddMount(l, m) ==
    /\ mnt' = [k \in ContainerIds |-> IF k \in Peers(l) THEN mnt[k] \cup {m} ELSE mnt[k]]
    /\ hostMnt' = IF shared[l] THEN hostMnt \cup {m} ELSE hostMnt

\* Mutant of MountImageDir: a failing mount is caught and ignored.
MountImageDir_IgnoresError(l) ==
    /\ At(l, "_mount_image_dir", "entry")
    /\ LET image_root == ImageRoot(params[l].image)
           container_dir == ContainerDir(params[l].container_id)
           present == /\ Exists(l, image_root)
                      /\ Exists(l, container_dir.root_dir)
                      /\ Exists(l, container_dir.rw_dir)
                      /\ Exists(l, container_dir.work_dir)
       IN  \/ /\ present
              /\ AddMount(l, Mount("overlay", container_dir.root_dir, l, {"MS_NODEV"},
                                   image_root, container_dir.rw_dir, container_dir.work_dir))
              /\ Return(l)
              /\ ChildLog(l, "mount_overlay", "ok", container_dir.root_dir)
           \/ /\ Return(l)
              /\ ChildLog(l, "mount_overlay", "failed", container_dir.root_dir)
              /\ UNCHANGED <<mnt, hostMnt>>
    /\ UNCHANGED <<disk, hostShared, hostHostname, parentVars, hostname, shared, tmpfs, cwd>>

\* Mutant of MountImageDir: the mount succeeds without a lower directory.
MountImageDir_NoLowerCheck(l) ==
    /\ At(l, "_mount_image_dir", "entry")
    /\ LET image_root == ImageRoot(params[l].image)
           container_dir == ContainerDir(params[l].container_id)
       IN  \/ /\ AddMount(l, Mount("overlay", container_dir.root_dir, l, {"MS_NODEV"},
                                   image_root, container_dir.rw_dir, container_dir.work_dir))
              /\ Return(l)
              /\ ChildLog(l, "mount_overlay", "ok", container_dir.root_dir)
           \/ /\ Raise(l, "RuntimeError", "mount_overlay", "ENODEV")
              /\ ChildLog(l, "mount_overlay", "failed", container_dir.root_dir)
              /\ UNCHANGED <<mnt, hostMnt>>
    /\ UNCHANGED <<disk, hostShared, hostHostname, parentVars, hostname, shared, tmpfs, cwd>>

\* self._mount_image_dir(init_params.image, container_dir): the overlay mount.
MountImageDir(l) ==
    /\ At(l, "_mount_image_dir", "entry")
    /\ LET image_root == ImageRoot(params[l].image)
           container_dir == ContainerDir(params[l].container_id)
           present == /\ Exists(l, image_root)
                      /\ Exists(l, container_dir.root_dir)
                      /\ Exists(l, container_dir.rw_dir)
                      /\ Exists(l, container_dir.work_dir)
       IN  \/ /\ present
              /\ AddMount(l, Mount("overlay", container_dir.root_dir, l, {"MS_NODEV"},
                                   image_root, container_dir.rw_dir, container_dir.work_dir))
              /\ Return(l)
              /\ ChildLog(l, "mount_overlay", "ok", container_dir.root_dir)
           \/ /\ ~present
              /\ Raise(l, "RuntimeError", "mount_overlay", "ENOENT")
              /\ ChildLog(l, "mount_overlay", "failed", container_dir.root_dir)
              /\ UNCHANGED <<mnt, hostMnt>>
           \/ /\ Raise(l, "RuntimeError", "mount_overlay", "ENODEV")
              /\ ChildLog(l, "mount_overlay", "failed", container_dir.root_dir)
              /\ UNCHANGED <<mnt, hostMnt>>
    /\ UNCHANGED <<disk, hostShared, hostHostname, parentVars, hostname, shared, tmpfs, cwd>>

\* self._init_system_dir(container_dir.root_dir)
InitSystemDir(l) ==
    /\ At(l, "_init_system_dir", "entry")
    /\ Proceed(l, "check", 1)
    /\ ChildLog(l, "call", "ok", <<>>)
    /\ UNCHANGED <<disk, hostVars, parentVars, hostname, shared, mnt, tmpfs, cwd>>

\* Mutant of CheckSystemDir: the loop never moves on to the next directory.
CheckSystemDir_NeverAdvances(l) ==
    /\ At(l, "_init_system_dir", "check")
    /\ LET d == SystemDirSeq(ContainerDir(params[l].container_id).root_dir)[idx[l]]
       IN  \/ /\ Exists(l, d)
              /\ Proceed(l, "check", idx[l])
           \/ /\ ~Exists(l, d)
              /\ StartMakedirs(l, d, "makedirs")
    /\ UNCHANGED <<disk, hostVars, parentVars, hostname, shared, mnt, tmpfs, cwd, calls>>

\* for d in (proc_dir, sysfs_dir, dev_dir): if not os.path.exists(d): os.makedirs(d)
CheckSystemDir(l) ==
    /\ At(l, "_init_system_dir", "check")
    /\ LET d == SystemDirSeq(ContainerDir(params[l].container_id).root_dir)[idx[l]]
       IN  \/ /\ Exists(l, d)
              /\ IF idx[l] < 3 THEN Proceed(l, "check", idx[l] + 1)
                 ELSE Proceed(l, "mount_proc", 0)
           \/ /\ ~Exists(l, d)
              /\ StartMakedirs(l, d, "makedirs")
    /\ UNCHANGED <<disk, hostVars, parentVars, hostname, shared, mnt, tmpfs, cwd, calls>>

\* One linux.mount call of _init_system_dir.
SystemMount(l, label, m, op, next, i) ==
    /\ At(l, "_init_system_dir", label)
    /\ \/ /\ Exists(l, m.at)
          /\ AddMount(l, m)
          /\ Proceed(l, next, i)
          /\ ChildLog(l, op, "ok", m.at)
       \/ /\ Raise(l, "RuntimeError", op, IF Exists(l, m.at) THEN "EPERM" ELSE "ENOENT")
          /\ ChildLog(l, op, "failed", m.at)
          /\ UNCHANGED <<mnt, hostMnt>>
    /\ UNCHANGED <<disk, hostShared, hostHostname, parentVars, hostname, shared, tmpfs, cwd>>

RootDir(l) == ContainerDir(params[l].container_id).root_dir

\* linux.mount('proc', proc_dir, 'proc', 0, '')
MountProc(l) ==
    SystemMount(l, "mount_proc",
                Mount("proc", RootDir(l) \o <<"proc">>, l, {}, <<>>, <<>>, <<>>),
                "mount_proc", "mount_sysfs", 0)

\* linux.mount('sysfs', sysfs_dir, 'sysfs', 0, '')
MountSysfs(l) ==
    SystemMount(l, "mount_sysfs",
                Mount("sysfs", RootDir(l) \o <<"sys">>, l, {}, <<>>, <<>>, <<>>),
                "mount_sysfs", "mount_tmpfs", 0)

\* Mutant of MountTmpfs: the tmpfs is mounted on sys, not on dev.
MountTmpfs_OnSys(l) ==
    SystemMount(l, "mount_tmpfs",
                Mount("tmpfs", RootDir(l) \o <<"sys">>, l,
                      {"MS_NOSUID", "MS_STRICTATIME", "mode=755"}, <<>>, <<>>, <<>>),
                "mount_tmpfs", "check_devpts", 0)

\* linux.mount('tmpfs', dev_dir, 'tmpfs', MS_NOSUID | MS_STRICTATIME, 'mode=755')
MountTmpfs(l) ==
    SystemMount(l, "mount_tmpfs",
                Mount("tmpfs", RootDir(l) \o <<"dev">>, l,
                      {"MS_NOSUID", "MS_STRICTATIME", "mode=755"}, <<>>, <<>>, <<>>),
                "mount_tmpfs", "check_devpts", 0)

\* Mutant of CheckDevpts: the test sees the image's dev/pts under the tmpfs.
CheckDevpts_SeesImage(l) ==
    /\ At(l, "_init_system_dir", "check_devpts")
    /\ IF ExistsIn({m \in mnt[l] : m.fstype # "tmpfs"}, RootDir(l) \o <<"dev", "pts">>,
                   disk, tmpfs)
       THEN Proceed(l, "symlink", 1)
       ELSE StartMakedirs(l, RootDir(l) \o <<"dev", "pts">>, "makedirs_devpts")
    /\ UNCHANGED <<disk, hostVars, parentVars, hostname, shared, mnt, tmpfs, cwd, calls>>

\* if not os.path.exists(devpts_path): os.makedirs(devpts_path); linux.mount(...)
\* and, in either case, self._init_devices(...)
CheckDevpts(l) ==
    /\ At(l, "_init_system_dir", "check_devpts")
    /\ IF Exists(l, RootDir(l) \o <<"dev", "pts">>)
       THEN Proceed(l, "symlink", 1)
       ELSE StartMakedirs(l, RootDir(l) \o <<"dev", "pts">>, "makedirs_devpts")
    /\ UNCHANGED <<disk, hostVars, parentVars, hostname, shared, mnt, tmpfs, cwd, calls>>

\* linux.mount('devpts', devpts_path, 'devpts', 0, ''), inside the `if`
MountDevpts(l) ==
    SystemMount(l, "mount_devpts",
                Mount("devpts", RootDir(l) \o <<"dev", "pts">>, l, {}, <<>>, <<>>, <<>>),
                "mount_devpts", "symlink", 1)

\* A symlink or a device node is created at p: in the tmpfs when p resolves
\* into one, in the upper directory when it resolves into the overlay.
CanCreate(l, p) ==
    /\ CanMkdir(l, p)
    /\ ~Exists(l, p)
    /\ Exists(l, Prefix(p, Len(p) - 1))

TmpfsAfterCreate(l, p, node) ==
    LET m == MountOf(mnt[l], p)
        rel == Suffix(p, Len(m.at))
    IN  IF m.fstype = "tmpfs"
        THEN [tmpfs EXCEPT ![m.by] = @ \cup {[node EXCEPT !.path = rel]}]
        ELSE tmpfs

\* _init_devices: os.symlink for stdin, stdout, stderr and fd
Symlink(l) ==
    /\ At(l, "_init_system_dir", "symlink")
    /\ LET s == Symlinks[idx[l]]
           p == RootDir(l) \o <<"dev", s.name>>
       IN  \/ /\ CanCreate(l, p)
              /\ disk' = DiskAfterMkdir(l, p)
              /\ tmpfs' = TmpfsAfterCreate(l, p, Node(<<>>, "symlink", s.target, 0, 0, 0))
              /\ IF idx[l] < Len(Symlinks) THEN Proceed(l, "symlink", idx[l] + 1)
                 ELSE Proceed(l, "mknod", 1)
              /\ ChildLog(l, "symlink", "ok", p)
           \/ /\ Raise(l, IF Exists(l, p) THEN "FileExistsError" ELSE "OSError", "symlink",
                       IF Exists(l, p) THEN "EEXIST" ELSE "EACCES")
              /\ ChildLog(l, "symlink", "failed", p)
              /\ UNCHANGED <<disk, tmpfs>>
    /\ UNCHANGED <<hostVars, parentVars, hostname, shared, mnt, cwd>>

\* stat.S_IFCHR and the permission bits 0o666
S_IFCHR == 8192

DeviceMode == 438

\* _init_devices: os.mknod(path, 0o666 | dev_type, os.makedev(major, minor))
Mknod(l) ==
    /\ At(l, "_init_system_dir", "mknod")
    /\ LET d == Devices[idx[l]]
           p == RootDir(l) \o <<"dev", d.name>>
       IN  \/ /\ CanCreate(l, p)
              /\ disk' = DiskAfterMkdir(l, p)
              /\ tmpfs' = TmpfsAfterCreate(l, p,
                             Node(<<>>, "chr", <<>>, d.major, d.minor, DeviceMode + S_IFCHR))
              /\ IF idx[l] < Len(Devices) THEN Proceed(l, "mknod", idx[l] + 1)
                 ELSE Return(l)
              /\ ChildLog(l, "mknod", "ok", p)
           \/ /\ Raise(l, IF Exists(l, p) THEN "FileExistsError" ELSE "PermissionError",
                       "mknod", IF Exists(l, p) THEN "EEXIST" ELSE "EPERM")
              /\ ChildLog(l, "mknod", "failed", p)
              /\ UNCHANGED <<disk, tmpfs>>
    /\ UNCHANGED <<hostVars, parentVars, hostname, shared, mnt, cwd>>

\* self._change_root_dir(container_dir.root_dir): os.makedirs(old_root)
ChangeRootDir(l) ==
    /\ At(l, "_change_root_dir", "entry")
    /\ StartMakedirs(l, RootDir(l) \o <<"old_root">>, "makedirs_old_root")
    /\ ChildLog(l, "call", "ok", <<>>)
    /\ UNCHANGED <<disk, hostVars, parentVars, hostname, shared, mnt, tmpfs, cwd>>

\* The mount table after pivot_root(new_root, new_root/old_root): what was
\* under new_root is now under /, everything else under /old_root.
Pivoted(table, new_root) ==
    {[m EXCEPT !.at = IF IsPrefix(new_root, m.at) THEN Suffix(m.at, Len(new_root))
                      ELSE <<"old_root">> \o m.at] : m \in table}

\* linux.pivot_root(container_root_dir, old_root): new_root must be a mount
\* point, put_old a directory under it, and the mounts must not be shared.
PivotRoot(l) ==
    /\ At(l, "_change_root_dir", "pivot_root")
    /\ LET new_root == RootDir(l)
           allowed == /\ \E m \in mnt[l] : m.at = new_root
                      /\ Exists(l, new_root \o <<"old_root">>)
                      /\ ~shared[l]
       IN  \/ /\ allowed
              /\ mnt' = [mnt EXCEPT ![l] = Pivoted(@, new_root)]
              /\ cwd' = [cwd EXCEPT ![l] = IF @ = <<>> THEN <<>> ELSE <<"old_root">> \o @]
              /\ Proceed(l, "chdir", 0)
              /\ ChildLog(l, "pivot_root", "ok", new_root)
           \/ /\ Raise(l, "RuntimeError", "pivot_root", IF allowed THEN "EPERM" ELSE "EINVAL")
              /\ ChildLog(l, "pivot_root", "failed", new_root)
              /\ UNCHANGED <<mnt, cwd>>
    /\ UNCHANGED <<disk, hostVars, parentVars, hostname, shared, tmpfs>>

\* Mutant of Chdir: the working directory stays where pivot_root left it.
Chdir_KeepsCwd(l) ==
    /\ At(l, "_change_root_dir", "chdir")
    /\ \/ /\ Proceed(l, "umount2", 0)
          /\ ChildLog(l, "chdir", "ok", <<>>)
       \/ /\ Raise(l, "OSError", "chdir", "EACCES")
          /\ ChildLog(l, "chdir", "failed", <<>>)
    /\ UNCHANGED <<disk, hostVars, parentVars, hostname, shared, mnt, tmpfs, cwd>>

\* os.chdir('/')
Chdir(l) ==
    /\ At(l, "_change_root_dir", "chdir")
    /\ \/ /\ cwd' = [cwd EXCEPT ![l] = <<>>]
          /\ Proceed(l, "umount2", 0)
          /\ ChildLog(l, "chdir", "ok", <<>>)
       \/ /\ Raise(l, "OSError", "chdir", "EACCES")
          /\ ChildLog(l, "chdir", "failed", <<>>)
          /\ UNCHANGED cwd
    /\ UNCHANGED <<disk, hostVars, parentVars, hostname, shared, mnt, tmpfs>>

\* linux.umount2('/old_root', linux.MNT_DETACH): detaches the mount at
\* /old_root and every mount under it, busy or not.
Umount2(l) ==
    /\ At(l, "_change_root_dir", "umount2")
    /\ LET mounted == \E m \in mnt[l] : m.at = <<"old_root">>
       IN  \/ /\ mounted
              /\ mnt' = [mnt EXCEPT ![l] = {m \in @ : ~IsPrefix(<<"old_root">>, m.at)}]
              /\ Proceed(l, "rmdir", 0)
              /\ ChildLog(l, "umount2", "ok", <<"old_root">>)
           \/ /\ Raise(l, "RuntimeError", "umount2", IF mounted THEN "EPERM" ELSE "EINVAL")
              /\ ChildLog(l, "umount2", "failed", <<"old_root">>)
              /\ UNCHANGED mnt
    /\ UNCHANGED <<disk, hostVars, parentVars, hostname, shared, tmpfs, cwd>>

\* rmdir(p) through the process's mount table: p must exist, be empty and
\* not be a mount point.
CanRmdir(l, p) ==
    /\ Exists(l, p)
    /\ CanMkdir(l, p)
    /\ ~\E m \in mnt[l] : IsPrefix(p, m.at)
    /\ ~\E q \in disk : LET m == MountOf(mnt[l], p)
                            rel == Suffix(p, Len(m.at))
                        IN  /\ m.fstype \in {"disk", "overlay"}
                            /\ Len(q) > Len(m.upper \o rel)
                            /\ \/ IsPrefix(m.upper \o rel, q)
                               \/ m.fstype = "overlay" /\ IsPrefix(m.lower \o rel, q)

DiskAfterRmdir(l, p) ==
    LET m == MountOf(mnt[l], p)
        rel == Suffix(p, Len(m.at))
    IN  CASE m.fstype = "disk"    -> disk \ {rel}
          [] m.fstype = "overlay" -> disk \ {m.upper \o rel}
          [] OTHER                -> disk

\* Mutant of Rmdir: the directory is left in place.
Rmdir_KeepsDir(l) ==
    /\ At(l, "_change_root_dir", "rmdir")
    /\ \/ /\ Return(l)
          /\ ChildLog(l, "rmdir", "ok", <<"old_root">>)
       \/ /\ Raise(l, "OSError", "rmdir", "EACCES")
          /\ ChildLog(l, "rmdir", "failed", <<"old_root">>)
    /\ UNCHANGED <<disk, hostVars, parentVars, hostname, shared, mnt, tmpfs, cwd>>

\* os.rmdir('/old_root')
Rmdir(l) ==
    /\ At(l, "_change_root_dir", "rmdir")
    /\ \/ /\ CanRmdir(l, <<"old_root">>)
          /\ disk' = DiskAfterRmdir(l, <<"old_root">>)
          /\ Return(l)
          /\ ChildLog(l, "rmdir", "ok", <<"old_root">>)
       \/ /\ Raise(l, "OSError", "rmdir",
                   IF CanRmdir(l, <<"old_root">>) THEN "EACCES" ELSE "EBUSY")
          /\ ChildLog(l, "rmdir", "failed", <<"old_root">>)
          /\ UNCHANGED disk
    /\ UNCHANGED <<hostVars, parentVars, hostname, shared, mnt, tmpfs, cwd>>

\* Mutant of Execvp: a missing executable is not an error, execute returns.
Execvp_ReturnsWhenMissing(l) ==
    /\ At(l, "execvp", "entry")
    /\ LET command == params[l].command
       IN  \/ /\ command = <<>>
              /\ Raise(l, "IndexError", "command[0]", "none")
              /\ ChildLog(l, "command[0]", "failed", <<>>)
           \/ /\ command # <<>>
              /\ Exists(l, ExecPath(command[1]))
              /\ Step(l, stmt[l], "running", 0, NoMk, NoTerm, NoErr)
              /\ ChildLog(l, "execvp", "ok", ExecPath(command[1]))
           \/ /\ command # <<>>
              /\ ~Exists(l, ExecPath(command[1]))
              /\ Return(l)
              /\ ChildLog(l, "execvp", "failed", ExecPath(command[1]))
    /\ UNCHANGED <<disk, hostVars, parentVars, hostname, shared, mnt, tmpfs, cwd>>

\* os.execvp(init_params.command[0], init_params.command): on success the
\* process image is replaced and the command runs in the child.
Execvp(l) ==
    /\ At(l, "execvp", "entry")
    /\ LET command == params[l].command
       IN  \/ /\ command = <<>>
              /\ Raise(l, "IndexError", "command[0]", "none")
              /\ ChildLog(l, "command[0]", "failed", <<>>)
           \/ /\ command # <<>>
              /\ Exists(l, ExecPath(command[1]))
              /\ Step(l, stmt[l], "running", 0, NoMk, NoTerm, NoErr)
              /\ ChildLog(l, "execvp", "ok", ExecPath(command[1]))
           \/ /\ command # <<>>
              /\ ~Exists(l, ExecPath(command[1]))
              /\ Raise(l, "FileNotFoundError", "execvp", "ENOENT")
              /\ ChildLog(l, "execvp", "failed", ExecPath(command[1]))
           \/ /\ command # <<>>
              /\ Exists(l, ExecPath(command[1]))
              /\ Raise(l, "PermissionError", "execvp", "EACCES")
              /\ ChildLog(l, "execvp", "failed", ExecPath(command[1]))
    /\ UNCHANGED <<disk, hostVars, parentVars, hostname, shared, mnt, tmpfs, cwd>>

\* The exit codes and signals the running command may end with.
ExitCodes == (0..MaxExitCode) \cup {255}

Signals == 1..MaxSignal

\* The command exits.
CommandExits(l) ==
    /\ cpc[l] = "running"
    /\ \E c \in ExitCodes : Step(l, stmt[l], "exited", 0, NoMk, Exit(c), NoErr)
    /\ UNCHANGED <<disk, hostVars, parentVars, hostname, shared, mnt, tmpfs, cwd, calls>>

\* The command is killed by a signal.
CommandKilled(l) ==
    /\ cpc[l] = "running"
    /\ \E s \in Signals, core \in BOOLEAN :
          Step(l, stmt[l], "exited", 0, NoMk,
               [kind |-> "signal", n |-> s, core |-> core], NoErr)
    /\ UNCHANGED <<disk, hostVars, parentVars, hostname, shared, mnt, tmpfs, cwd, calls>>

----------------------------------------------------------------------------
\* The specification

Next ==
    \E l \in ContainerIds :
        \/ Main(l)
        \/ Clone(l)
        \/ Waitpid(l)
        \/ PrintStatus(l)
        \/ SetHostname(l)
        \/ MountPrivate(l)
        \/ CreateContainerRootDir(l)
        \/ CheckContainerDir(l)
        \/ MakedirsUp(l)
        \/ MakedirsDown(l)
        \/ MountImageDir(l)
        \/ InitSystemDir(l)
        \/ CheckSystemDir(l)
        \/ MountProc(l)
        \/ MountSysfs(l)
        \/ MountTmpfs(l)
        \/ CheckDevpts(l)
        \/ MountDevpts(l)
        \/ Symlink(l)
        \/ Mknod(l)
        \/ ChangeRootDir(l)
        \/ PivotRoot(l)
        \/ Chdir(l)
        \/ Umount2(l)
        \/ Rmdir(l)
        \/ Execvp(l)
        \/ CommandExits(l)
        \/ CommandKilled(l)

\* One launch.
Spec == Init /\ [][Next]_vars

\* Two launches at once, on a host whose mounts are shared and on which no
\* container has been launched before.  Two launches that both clone a child
\* run on the bare image; the other layouts are launched beside a launch
\* that ends with "invalid args".
ConcArgvs ==
    { [c1 |-> [image_name |-> "busybox", command |-> <<"/bin/echo", "hello">>],
       c2 |-> [image_name |-> "busybox", command |-> <<"/bin/missing">>]],
      [c1 |-> [image_name |-> "busybox", command |-> <<>>],
       c2 |-> [image_name |-> "alpine", command |-> <<"/bin/echo", "hello">>]],
      [c1 |-> [image_name |-> ":", command |-> <<"/bin/echo", "hello">>],
       c2 |-> [image_name |-> "busybox", command |-> <<"/bin/echo", "hello">>]] }

BareImage ==
    \A e \in {<<"proc">>, <<"old_root">>} : ImageRoot(Busybox) \o e \notin disk

InitConc ==
    /\ InitWith(ContainerIds, ArgvChoices)
    /\ argv \in ConcArgvs
    /\ hostShared
    /\ CONTAINER_DATA_DIR \notin disk
    /\ (\A l \in ContainerIds : MatchImageArg(argv[l].image_name).ok) => BareImage

SpecConc == InitConc /\ [][Next]_vars

----------------------------------------------------------------------------
\* Reading the log

IsChildCall(e) == e.by = "child"

IsParentCall(e) == e.by = "parent"

ChildCalls(l) == SelectSeq(calls[l], IsChildCall)

ParentCalls(l) == SelectSeq(calls[l], IsParentCall)

Ops(s) == [i \in 1..Len(s) |-> s[i].op]

RECURSIVE Dedup(_)
\* s without the repetitions of an element next to itself.
Dedup(s) ==
    IF Len(s) <= 1 THEN s
    ELSE IF s[1] = s[2] THEN Dedup(Tail(s))
    ELSE <<s[1]>> \o Dedup(Tail(s))

\* The setup steps of a launch, in the order the design gives them.
SetupOrder ==
    <<"sethostname", "_create_container_root_dir", "_mount_image_dir",
      "_init_system_dir", "_change_root_dir", "execvp">>

IsSetupStep(f) == \E i \in 1..Len(SetupOrder) : SetupOrder[i] = f

\* The setup steps the child has started, in the order it started them.
StepsOf(l) ==
    LET cc == ChildCalls(l)
    IN  Dedup(SelectSeq([i \in 1..Len(cc) |-> cc[i].fn], IsSetupStep))

\* The calls with which a statement of execute starts.
EntryOps == {"call", "sethostname", "mount_private", "mount_overlay", "execvp", "command[0]"}

\* The calls that change a mount table.
MountOps ==
    {"mount_overlay", "mount_proc", "mount_sysfs", "mount_tmpfs", "mount_devpts",
     "pivot_root", "umount2"}

----------------------------------------------------------------------------
\* C1: the child runs the setup steps in the order sethostname, create the
\* container directories, mount the overlay, initialise the system
\* directories and devices, switch the root, exec; a step starts only when
\* the calls before it succeeded, none is skipped and none runs twice; the
\* exec is of command[0].
C1_SetupOrder ==
    \A l \in ContainerIds :
        LET cc == ChildCalls(l)
        IN  /\ IsPrefix(StepsOf(l), SetupOrder)
            /\ \A i \in 1..Len(cc) : cc[i].res = "failed" => i = Len(cc)
            /\ \A f \in {SetupOrder[k] : k \in 1..Len(SetupOrder)} :
                   Cardinality({i \in 1..Len(cc) : cc[i].fn = f /\ cc[i].op \in EntryOps}) <= 1
            /\ cpc[l] = "running" =>
                   /\ StepsOf(l) = SetupOrder
                   /\ cc[Len(cc)].op = "execvp"
                   /\ cc[Len(cc)].res = "ok"
                   /\ cc[Len(cc)].path = ExecPath(params[l].command[1])

\* C1 witness: a child has gone through the whole setup and exec'd.
C1_Witness ==
    /\ cpc["c1"] = "running"
    /\ StepsOf("c1") = SetupOrder

\* C2 as stated: / is made private by the parent, before the clone, and
\* never after it.
C2_PrivateBeforeClone ==
    \A l \in ContainerIds :
        \A i \in 1..Len(calls[l]) :
            calls[l][i].op = "mount_private" =>
                /\ calls[l][i].by = "parent"
                /\ \A j \in 1..i : calls[l][j].op # "clone"

\* C2 amended: / is made private by the child, after the clone that created
\* it, and before any other call of the launch that changes a mount table;
\* the parent never does it.
C2_PrivateInChildBeforeMounts ==
    \A l \in ContainerIds :
        \A i \in 1..Len(calls[l]) :
            /\ calls[l][i].op = "mount_private" =>
                   /\ calls[l][i].by = "child"
                   /\ \E j \in 1..(i - 1) :
                          calls[l][j].op = "clone" /\ calls[l][j].res = "ok"
            /\ calls[l][i].op \in MountOps =>
                   \E j \in 1..(i - 1) :
                       /\ calls[l][j].op = "mount_private"
                       /\ calls[l][j].res = "ok"
                       /\ calls[l][j].by = "child"

\* C2 witness: a child has made / private and then mounted the overlay.
C2_Witness ==
    \E i, j \in 1..Len(calls["c1"]) :
        /\ i < j
        /\ calls["c1"][i].op = "mount_private"
        /\ calls["c1"][j].op = "mount_overlay"
        /\ calls["c1"][j].res = "ok"

\* C3: a failing call of the child is its last call: the child terminates
\* there with a non-zero exit code, at the statement that failed, and the
\* calls of the parent's code (clone, waitpid) are made by the parent only.
C3_FailureIsTerminal ==
    \A l \in ContainerIds :
        LET cc == ChildCalls(l)
        IN  /\ \A i \in 1..Len(cc) :
                   cc[i].res = "failed" =>
                       /\ i = Len(cc)
                       /\ cpc[l] = "exited"
                       /\ term[l].kind = "exit"
                       /\ term[l].n # 0
                       /\ err[l].exc # "none"
                       /\ err[l].fn = cc[i].fn
                       /\ stmt[l] \in 1..Len(ExecuteBody)
                       /\ ExecuteBody[stmt[l]] = cc[i].fn
            /\ \A i \in 1..Len(cc) : cc[i].op \notin {"clone", "waitpid"}
            /\ err[l].exc # "none" => /\ Len(cc) > 0
                                      /\ cc[Len(cc)].res = "failed"

\* C3 witness: a child has failed in the middle of the device initialisation.
C3_Witness ==
    /\ err["c1"].op = "mknod"
    /\ cpc["c1"] = "exited"
    /\ ppc["c1"] = "done"

\* C4: the launcher has the status, prints it and returns only when the
\* child has terminated.
C4_Synchronous ==
    \A l \in ContainerIds :
        (ppc[l] \in {"print", "done"} \/ reported[l] # NoReport) =>
            /\ cpc[l] = "exited"
            /\ term[l].kind # "none"

\* C4 witness: the launcher has returned after the command ran and exited.
C4_Witness ==
    /\ ppc["c1"] = "done"
    /\ err["c1"].exc = "none"
    /\ term["c1"].kind = "exit"
    /\ term["c1"].n = 0

\* C5 as stated: the status the launcher reports for a child that exited
\* with code c is c, and for a child killed by a signal it is no value that
\* an exit code can take.
C5_ReportsExitCode ==
    \A l \in ContainerIds :
        ppc[l] = "done" =>
            /\ term[l].kind = "exit" => reported[l].status = term[l].n
            /\ term[l].kind = "signal" => reported[l].status \notin 0..255

\* The calls that create a directory or mount onto one, made with a path of
\* the host's root.
PlacingOps ==
    {"mkdir", "mount_overlay", "mount_proc", "mount_sysfs", "mount_tmpfs", "mount_devpts"}

\* The steps that create the container directories and mount onto them.
PlacingSteps == {"_create_container_root_dir", "_mount_image_dir", "_init_system_dir"}

\* C6: two launches with distinct container ids, in every interleaving: the
\* directories they create and the mount points they mount onto are
\* disjoint, no directory creation or mount of one fails because of what the
\* other did (the shared container-data root included), and no mount of one
\* is in the mount namespace of the other.
C6_LaunchesDoNotInterfere ==
    \A l, k \in ContainerIds :
        l # k =>
            /\ \A i \in 1..Len(calls[l]), j \in 1..Len(calls[k]) :
                   LET a == calls[l][i]
                       b == calls[k][j]
                   IN  (/\ a.op \in PlacingOps /\ a.res = "ok"
                        /\ b.op \in PlacingOps /\ b.res = "ok") =>
                           /\ a.path # b.path
                           /\ (a.op # "mkdir" /\ b.op # "mkdir") => ~IsPrefix(a.path, b.path)
            /\ err[l].fn \in PlacingSteps =>
                   /\ err[l].errno # "EEXIST"
                   /\ err[l].errno = "ENOENT" => ImageRoot(params[l].image) \notin disk
            /\ \A m \in mnt[k] : m.by # l

\* C6 witness: both launches have gone through the whole setup, and one of
\* them found the container-data root created by the other under its hands.
C6_Witness ==
    /\ \E i \in 1..Len(calls["c1"]) : calls["c1"][i].res = "caught"
    /\ cpc["c1"] = "running"
    /\ err["c2"].op = "execvp"

\* C7: the parent makes no call but clone and then waitpid; the host's
\* mount table and hostname are, in every state of every launch, what they
\* were before it.
C7_HostUntouched ==
    /\ hostMnt = {HostRootMount}
    /\ hostHostname = "host"
    /\ \A l \in ContainerIds :
           /\ IsPrefix(Ops(ParentCalls(l)), <<"clone", "waitpid">>)
           /\ \A i \in 1..Len(calls[l]) :
                  calls[l][i].op \in MountOps \cup {"mount_private", "sethostname", "mknod"} =>
                      calls[l][i].by = "child"

\* C7 witness: on a host with shared mounts a launch has mounted, switched
\* its root, and returned.
C7_Witness ==
    /\ hostShared
    /\ ppc["c1"] = "done"
    /\ \E i \in 1..Len(calls["c1"]) :
           calls["c1"][i].op = "umount2" /\ calls["c1"][i].res = "ok"

\* The node of a name in /dev, as the process sees it.
DevNodes(l, name) ==
    IF Covered(mnt[l], <<"dev", name>>) /\ MountOf(mnt[l], <<"dev", name>>).fstype = "tmpfs"
    THEN {n \in tmpfs[MountOf(mnt[l], <<"dev", name>>).by] :
            n.path = Suffix(<<"dev", name>>, Len(MountOf(mnt[l], <<"dev", name>>).at))}
    ELSE {}

\* C8: when the child has exec'd, its root holds proc, sys, dev/pts (each
\* mounted), the seven device nodes and the four stdio symlinks, and no
\* old_root.
C8_RootAtExec ==
    \A l \in ContainerIds :
        cpc[l] = "running" =>
            /\ \E m \in mnt[l] : m.at = <<>> /\ m.fstype = "overlay" /\ m.by = l
            /\ \E m \in mnt[l] : m.at = <<"proc">> /\ m.fstype = "proc"
            /\ \E m \in mnt[l] : m.at = <<"sys">> /\ m.fstype = "sysfs"
            /\ \E m \in mnt[l] : m.at = <<"dev">> /\ m.fstype = "tmpfs"
            /\ \E m \in mnt[l] : m.at = <<"dev", "pts">> /\ m.fstype = "devpts"
            /\ \A i \in 1..Len(Devices) :
                   \E n \in DevNodes(l, Devices[i].name) :
                       /\ n.kind = "chr"
                       /\ n.major = Devices[i].major
                       /\ n.minor = Devices[i].minor
                       /\ n.mode = DeviceMode + S_IFCHR
            /\ \A name \in {"null", "zero", "tty", "random", "urandom", "console", "full"} :
                   Exists(l, <<"dev", name>>)
            /\ \A i \in 1..Len(Symlinks) :
                   \E n \in DevNodes(l, Symlinks[i].name) :
                       n.kind = "symlink" /\ n.target = Symlinks[i].target
            /\ ~Exists(l, <<"old_root">>)
            /\ ~\E m \in mnt[l] : IsPrefix(<<"old_root">>, m.at)

\* C8 witness: a child has exec'd on an image that brings its own /dev/pts.
C8_Witness ==
    /\ cpc["c1"] = "running"
    /\ ImageRoot(Busybox) \o <<"dev", "pts">> \in disk

\* The child of launch l has tried the overlay mount with no lower directory.
TriedWithoutLower(l) ==
    /\ ImageRoot(params[l].image) \notin disk
    /\ \E i \in 1..Len(calls[l]) : calls[l][i].op = "mount_overlay"

\* No call of a step after the overlay mount has been made.
NothingAfterOverlay(l) ==
    \A i \in 1..Len(calls[l]) :
        calls[l][i].fn \notin {"_init_system_dir", "_change_root_dir", "execvp"}

\* C9 as stated: without the lower directory the overlay mount step fails
\* with ImageNotFoundError, and no later step runs.
C9_ImageNotFoundError ==
    \A l \in ContainerIds :
        TriedWithoutLower(l) =>
            /\ err[l].exc = "ImageNotFoundError"
            /\ NothingAfterOverlay(l)

\* C9 amended: without the lower directory the overlay mount step fails
\* with the error linux.mount raises for any failed mount, a RuntimeError,
\* the child terminates there, and no later step runs.
C9_MountErrorStopsLaunch ==
    \A l \in ContainerIds :
        TriedWithoutLower(l) =>
            /\ err[l].exc = "RuntimeError"
            /\ err[l].fn = "_mount_image_dir"
            /\ err[l].op = "mount_overlay"
            /\ cpc[l] = "exited"
            /\ term[l] = Exit(255)
            /\ NothingAfterOverlay(l)
            /\ \A m \in mnt[l] : m.fstype # "overlay"

\* C9 witness: a launch of an image that was not pulled has failed in the
\* overlay mount for want of the lower directory.
C9_Witness ==
    /\ TriedWithoutLower("c1")
    /\ err["c1"].errno = "ENOENT"
    /\ ppc["c1"] = "done"

\* The child of launch l has tried to exec a command that is not in its root.
TriedMissingCommand(l) ==
    /\ params[l].command # <<>>
    /\ \E i \in 1..Len(calls[l]) :
           /\ calls[l][i].op = "execvp"
           /\ calls[l][i].path = ExecPath(params[l].command[1])
    /\ ~ExistsIn(mnt[l], ExecPath(params[l].command[1]), disk, tmpfs)

\* C10 as stated: for a command that does not exist the launch reports an
\* ExecError and a non-zero status, and leaves no mount on the host.
C10_ExecError ==
    \A l \in ContainerIds :
        (TriedMissingCommand(l) /\ ppc[l] = "done") =>
            /\ err[l].exc = "ExecError"
            /\ reported[l].status # 0
            /\ hostMnt = {HostRootMount}

\* C10 amended: for a command that does not exist the exec raises
\* FileNotFoundError in the child, which terminates with exit code 255; the
\* launcher reports the wait status 65280, as for any other failure of the
\* child, and the host's mount table holds no mount of the launch.
C10_MissingCommandFails ==
    \A l \in ContainerIds :
        TriedMissingCommand(l) =>
            /\ err[l] = [exc |-> "FileNotFoundError", fn |-> "execvp",
                          op |-> "execvp", errno |-> "ENOENT"]
            /\ cpc[l] = "exited"
            /\ term[l] = Exit(255)
            /\ hostMnt = {HostRootMount}
            /\ ppc[l] = "done" =>
                   /\ reported[l].status = 65280
                   /\ reported[l].status # 0
                   /\ reported[l].pid = l

\* C10 witness: the launcher has returned from a launch of a missing command
\* on a host with shared mounts.
C10_Witness ==
    /\ TriedMissingCommand("c1")
    /\ ppc["c1"] = "done"
    /\ hostShared

----------------------------------------------------------------------------
\* _create_container_root_dir called twice in a row

\* The number of calls of _create_container_root_dir in a row.
MaxCalls == 2

\* The place of a statement in execute.
StmtOf(fn) == CHOOSE i \in 1..Len(ExecuteBody) : ExecuteBody[i] = fn

\* The calls of _create_container_root_dir the child has started.
DirCalls(l) ==
    {i \in 1..Len(calls[l]) :
        calls[l][i].fn = "_create_container_root_dir" /\ calls[l][i].op = "call"}

\* A child about to call _create_container_root_dir, in its own private
\* mount namespace, with any of the three directories already there.
InitDirs ==
    \E l0 \in ContainerIds, present \in SUBSET {1, 2, 3}, dataRoot \in BOOLEAN :
        /\ disk = DiskWith({<<"bin">>, <<"bin", "echo">>}, dataRoot)
                    \cup UNION {Ancestors(ContainerDirSeq(l0)[k]) : k \in present}
        /\ hostMnt = {HostRootMount}
        /\ hostShared = FALSE
        /\ hostHostname = "host"
        /\ argv = [l \in ContainerIds |->
                     [image_name |-> "busybox", command |-> <<"/bin/echo", "hello">>]]
        /\ ppc = [l \in ContainerIds |-> IF l = l0 THEN "waitpid" ELSE "idle"]
        /\ params = [l \in ContainerIds |->
                       IF l = l0
                       THEN [image |-> Busybox, command |-> <<"/bin/echo", "hello">>,
                             container_id |-> l]
                       ELSE NoParams]
        /\ reported = [l \in ContainerIds |-> NoReport]
        /\ stmt = [l \in ContainerIds |->
                     IF l = l0 THEN StmtOf("_create_container_root_dir") ELSE 0]
        /\ cpc = [l \in ContainerIds |-> IF l = l0 THEN "entry" ELSE "none"]
        /\ idx = [l \in ContainerIds |-> 0]
        /\ mk = [l \in ContainerIds |-> NoMk]
        /\ term = [l \in ContainerIds |-> NoTerm]
        /\ err = [l \in ContainerIds |-> NoErr]
        /\ hostname = [l \in ContainerIds |-> IF l = l0 THEN l ELSE ""]
        /\ shared = [l \in ContainerIds |-> FALSE]
        /\ mnt = [l \in ContainerIds |-> IF l = l0 THEN {HostRootMount} ELSE {}]
        /\ tmpfs = [l \in ContainerIds |-> {}]
        /\ cwd = [l \in ContainerIds |-> IF l = l0 THEN HostCwd ELSE <<>>]
        /\ calls = [l \in ContainerIds |-> <<>>]

\* _create_container_root_dir has returned and is called again.
CallAgain(l) ==
    /\ stmt[l] = StmtOf("_create_container_root_dir") + 1
    /\ cpc[l] = "entry"
    /\ Cardinality(DirCalls(l)) < MaxCalls
    /\ Step(l, StmtOf("_create_container_root_dir"), "entry", 0, NoMk, NoTerm, NoErr)
    /\ UNCHANGED <<disk, hostVars, parentVars, hostname, shared, mnt, tmpfs, cwd, calls>>

NextDirs ==
    \E l \in ContainerIds :
        \/ CreateContainerRootDir(l)
        \/ CheckContainerDir(l)
        \/ MakedirsUp(l)
        \/ MakedirsDown(l)
        \/ CallAgain(l)

SpecDirs == InitDirs /\ [][NextDirs]_vars

\* The last call of _create_container_root_dir the child has started.
LastDirCall(l) == CHOOSE i \in DirCalls(l) : \A j \in DirCalls(l) : j <= i

\* C11: whatever subset of the three directories is there at the start, a
\* call of _create_container_root_dir that follows a call that returned
\* finds the three directories of the container id, makes no mkdir and
\* raises nothing, so it leaves the directories as the first call left them
\* and returns the same ContainerDir.
C11_SecondCallChangesNothing ==
    \A l \in ContainerIds :
        Cardinality(DirCalls(l)) >= 2 =>
            /\ \A k \in 1..3 : ContainerDirSeq(params[l].container_id)[k] \in disk
            /\ \A i \in 1..Len(calls[l]) :
                   i > LastDirCall(l) => calls[l][i].op # "mkdir" /\ calls[l][i].res = "ok"
            /\ err[l] = NoErr
            /\ cpc[l] # "exited"
            /\ mk[l] = NoMk

\* C11 witness: the second call has returned; the first call found rootfs
\* there and made cow_rw.
C11_Witness ==
    /\ Cardinality(DirCalls("c1")) = 2
    /\ stmt["c1"] = StmtOf("_create_container_root_dir") + 1
    /\ \E i \in 1..Len(calls["c1"]) :
           /\ calls["c1"][i].op = "mkdir"
           /\ calls["c1"][i].res = "ok"
           /\ calls["c1"][i].path = ContainerDir("c1").rw_dir
    /\ \A i \in 1..Len(calls["c1"]) : calls["c1"][i].path # ContainerDir("c1").root_dir

----------------------------------------------------------------------------
\* The overlay mount and the directories it names

\* The child's attempts of the overlay mount.
OverlayAttempts(l) ==
    {i \in 1..Len(calls[l]) : calls[l][i].by = "child" /\ calls[l][i].op = "mount_overlay"}

\* C12: when the child is at the overlay mount, and after it attempted it,
\* rootfs, cow_rw and cow_workdir of this launch's container id exist (on the
\* disk and as the child sees them at the call); the mount is attempted on
\* that rootfs, and the overlay it sets up has that rootfs as its mount
\* point (the root, once pivot_root has made it the root) and that cow_rw
\* and cow_workdir as its upper and work directory.
C12_OverlayDirsExist ==
    \A l \in ContainerIds :
        LET container_dir == ContainerDir(params[l].container_id)
            dirs == {container_dir.root_dir, container_dir.rw_dir, container_dir.work_dir}
        IN  /\ At(l, "_mount_image_dir", "entry") =>
                   \A d \in dirs : d \in disk /\ Exists(l, d)
            /\ OverlayAttempts(l) # {} => dirs \subseteq disk
            /\ \A i \in OverlayAttempts(l) :
                   /\ calls[l][i].path = container_dir.root_dir
                   /\ calls[l][i].path =
                          CONTAINER_DATA_DIR \o <<params[l].container_id, "rootfs">>
            /\ \A m \in mnt[l] :
                   (m.fstype = "overlay" /\ m.by = l) =>
                       /\ m.at = IF \E i \in 1..Len(calls[l]) :
                                      calls[l][i].op = "pivot_root" /\ calls[l][i].res = "ok"
                                 THEN <<>>
                                 ELSE CONTAINER_DATA_DIR \o <<l, "rootfs">>
                       /\ m.upper = CONTAINER_DATA_DIR \o <<l, "cow_rw">>
                       /\ m.work = CONTAINER_DATA_DIR \o <<l, "cow_workdir">>
                       /\ params[l].container_id = l

\* C12 witness: the overlay is mounted on directories this launch made.
C12_Witness ==
    /\ \E i \in OverlayAttempts("c1") : calls["c1"][i].res = "ok"
    /\ \E i \in 1..Len(calls["c1"]) :
           /\ calls["c1"][i].op = "mkdir"
           /\ calls["c1"][i].res = "ok"
           /\ calls["c1"][i].path = ContainerDir("c1").work_dir
    /\ \E m \in mnt["c1"] : m.fstype = "overlay" /\ m.upper = ContainerDir("c1").rw_dir

----------------------------------------------------------------------------
\* The command of the ContainerInitParams

\* C13 as stated: the ContainerInitParams that main hands to
\* RunCommand.execute has a non-empty command, and no child is cloned or
\* set up for an empty command.
C13_CommandNonEmpty ==
    \A l \in ContainerIds :
        (ppc[l] \in {"clone", "waitpid", "print", "done"} \/ cpc[l] # "none") =>
            params[l].command # <<>>

----------------------------------------------------------------------------
\* The root at the exec

\* The calls of the root switch, in the order of _change_root_dir.
RootSwitchOps == <<"mkdir", "pivot_root", "chdir", "umount2", "rmdir">>

\* The places in the log of the calls the child made in _change_root_dir.
RootSwitchCalls(l) ==
    {i \in 1..Len(calls[l]) :
        /\ calls[l][i].by = "child"
        /\ calls[l][i].fn = "_change_root_dir"
        /\ calls[l][i].op # "call"}

\* The child has come to os.execvp (and may have exec'd or failed there).
ReachedExec(l) == stmt[l] = StmtOf("execvp") /\ cpc[l] # "none"

\* C14: when the child is at the exec or past it, the five calls of the
\* root switch have each succeeded once, in order, the working directory
\* is /, nothing is mounted at or under /old_root and /old_root is gone;
\* when one of the five calls failed, the child has exited with code 255
\* and has never come to the exec.
C14_NoHalfSwitchedRoot ==
    \A l \in ContainerIds :
        /\ ReachedExec(l) =>
               /\ Cardinality(RootSwitchCalls(l)) = Len(RootSwitchOps)
               /\ \A k \in 1..Len(RootSwitchOps) :
                      \E i \in RootSwitchCalls(l) :
                          /\ calls[l][i].op = RootSwitchOps[k]
                          /\ calls[l][i].res = "ok"
                          /\ Cardinality({j \in RootSwitchCalls(l) : j < i}) = k - 1
               /\ cwd[l] = <<>>
               /\ ~\E m \in mnt[l] : IsPrefix(<<"old_root">>, m.at)
               /\ \E m \in mnt[l] : m.at = <<>> /\ m.fstype = "overlay" /\ m.by = l
               /\ ~Exists(l, <<"old_root">>)
               /\ ContainerDir(l).rw_dir \o <<"old_root">> \notin disk
        /\ (\E i \in RootSwitchCalls(l) : calls[l][i].res = "failed") =>
               /\ ~ReachedExec(l)
               /\ cpc[l] = "exited"
               /\ term[l] = Exit(255)
               /\ err[l].fn = "_change_root_dir"
               /\ \A i \in 1..Len(calls[l]) :
                      calls[l][i].op \notin {"execvp", "command[0]"}

\* C14 witness: the command has been exec'd after a root switch that
\* started on a shared host mount table, with the working directory at /.
C14_Witness ==
    /\ cpc["c1"] = "running"
    /\ cwd["c1"] = <<>>
    /\ hostShared
    /\ \E i \in RootSwitchCalls("c1") : calls["c1"][i].op = "rmdir" /\ calls["c1"][i].res = "ok"

----------------------------------------------------------------------------
\* devpts

\* _init_system_dir of launch l has returned.
SystemDirDone(l) == cpc[l] # "none" /\ stmt[l] > StmtOf("_init_system_dir")

\* The places in the log of the child's calls op on path p with result res.
CallsOn(l, op, res, p) ==
    {i \in 1..Len(calls[l]) :
        /\ calls[l][i].by = "child"
        /\ calls[l][i].op = op
        /\ calls[l][i].res = res
        /\ calls[l][i].path = p}

\* C15: when _init_system_dir has returned, devpts has been mounted on
\* rootfs/dev/pts, whether or not the image (or the upper layer) has a
\* dev/pts of its own, and the mount is still there; the directory was made
\* just before the mount (it is never there in the fresh tmpfs on dev).
C15_DevptsMounted ==
    \A l \in ContainerIds :
        SystemDirDone(l) =>
            LET pts == CONTAINER_DATA_DIR \o <<l, "rootfs", "dev", "pts">>
            IN  /\ Cardinality(CallsOn(l, "mount_devpts", "ok", pts)) = 1
                /\ Cardinality(CallsOn(l, "mkdir", "ok", pts)) = 1
                /\ \A i \in CallsOn(l, "mount_devpts", "ok", pts) :
                       i - 1 \in CallsOn(l, "mkdir", "ok", pts)
                /\ \E m \in mnt[l] :
                       /\ m.fstype = "devpts"
                       /\ m.by = l
                       /\ m.at \in {pts, <<"dev", "pts">>}
                /\ pts \notin disk
                /\ ContainerDir(l).rw_dir \o <<"dev", "pts">> \notin disk

\* C15 witness: _init_system_dir has returned for an image that has its own
\* dev/pts, and devpts is mounted on rootfs/dev/pts.
C15_Witness ==
    /\ At("c1", "_change_root_dir", "entry")
    /\ ImageRoot(params["c1"].image) \o <<"dev", "pts">> \in disk
    /\ \E m \in mnt["c1"] :
           m.fstype = "devpts" /\ m.at = ContainerDir("c1").root_dir \o <<"dev", "pts">>

----------------------------------------------------------------------------
\* The lower layer

\* What is on a disk under the image directory (layers/contents of every
\* pulled image).
ImageFiles(d) == {p \in d : IsPrefix(IMAGE_DATA_DIR, p)}

\* C16: no step of any launch, alone or beside another launch, adds
\* anything to the image directory or takes anything out of it: the lower
\* directory layers/contents stays as it was pulled.
C16_LowerLayerUnchanged == [][ImageFiles(disk') = ImageFiles(disk)]_vars

\* C16 witness: two launches of the same image have both set up and
\* switched their root, writing proc into their upper layers, and one has
\* exec'd.
C16_Witness ==
    /\ cpc["c1"] = "running"
    /\ \E i \in 1..Len(calls["c2"]) : calls["c2"][i].op = "execvp"
    /\ params["c1"].image = params["c2"].image
    /\ \A l \in ContainerIds : ContainerDir(l).rw_dir \o <<"proc">> \in disk
    /\ ImageRoot(Busybox) \o <<"proc">> \notin disk

----------------------------------------------------------------------------
\* Termination

\* One step of the child's setup, up to and including os.execvp.
ChildStep(l) ==
    \/ SetHostname(l)
    \/ MountPrivate(l)
    \/ CreateContainerRootDir(l)
    \/ CheckContainerDir(l)
    \/ MakedirsUp(l)
    \/ MakedirsDown(l)
    \/ MountImageDir(l)
    \/ InitSystemDir(l)
    \/ CheckSystemDir(l)
    \/ MountProc(l)
    \/ MountSysfs(l)
    \/ MountTmpfs(l)
    \/ CheckDevpts(l)
    \/ MountDevpts(l)
    \/ Symlink(l)
    \/ Mknod(l)
    \/ ChangeRootDir(l)
    \/ PivotRoot(l)
    \/ Chdir(l)
    \/ Umount2(l)
    \/ Rmdir(l)
    \/ Execvp(l)

\* One launch in which every call of the child's setup returns, and in
\* which os.waitpid returns once the child has terminated.  The command
\* that was exec'd need not ever end.
SpecFair ==
    /\ Init
    /\ [][Next]_vars
    /\ \A l \in ContainerIds : WF_vars(ChildStep(l)) /\ WF_vars(Waitpid(l))

\* The state of the child in the launch's state machine.
Phase(l) ==
    CASE cpc[l] = "none"                      -> "Unstarted"
      [] cpc[l] # "none" /\ err[l] # NoErr    -> "Failed"
      [] cpc[l] \in {"running", "exited"} /\ err[l] = NoErr -> "Exec'd"
      [] OTHER ->
           CASE ExecuteBody[stmt[l]] \in {"sethostname", "mount_private"} -> "Isolating"
             [] ExecuteBody[stmt[l]] \in {"_create_container_root_dir", "_mount_image_dir"}
                                                                           -> "MountingRoot"
             [] ExecuteBody[stmt[l]] = "_init_system_dir"                   -> "InitializingDevices"
             [] OTHER                                                       -> "SwitchingRoot"

PhaseRank(ph) ==
    CASE ph = "Unstarted"           -> 0
      [] ph = "Isolating"           -> 1
      [] ph = "MountingRoot"        -> 2
      [] ph = "InitializingDevices" -> 3
      [] ph = "SwitchingRoot"       -> 4
      [] OTHER                      -> 5

\* The child of launch l moves to the next state of the state machine, or
\* to Failed, and never out of Exec'd or Failed.
PhaseStep(l) ==
    Phase(l)' # Phase(l) =>
        /\ Phase(l) \notin {"Exec'd", "Failed"}
        /\ \/ Phase(l)' = "Failed" /\ Phase(l) # "Unstarted"
           \/ PhaseRank(Phase(l)') = PhaseRank(Phase(l)) + 1

\* C17: when every call of the setup returns, a child that was cloned
\* comes to Exec'd or to Failed (never both: an exec'd child has raised
\* nothing), going through Isolating, MountingRoot, InitializingDevices and
\* SwitchingRoot in that order, one after the other and never back; and when
\* the child has terminated, the parent's os.waitpid returns.
C17_ChildTerminatesInOrder ==
    /\ \A l \in ContainerIds :
           (Phase(l) # "Unstarted") ~> (Phase(l) \in {"Exec'd", "Failed"})
    /\ \A l \in ContainerIds :
           (cpc[l] = "exited") ~> (ppc[l] \in {"print", "done"})
    /\ [][\A l \in ContainerIds : PhaseStep(l)]_vars
    /\ [](\A l \in ContainerIds :
             (\E i \in 1..Len(calls[l]) : calls[l][i].op = "execvp" /\ calls[l][i].res = "ok")
                 => err[l] = NoErr /\ Phase(l) = "Exec'd")

\* C17 witness: the child failed in the root switch, after the three
\* states before it, and the parent's wait has returned.
C17_Witness ==
    /\ Phase("c1") = "Failed"
    /\ err["c1"].fn = "_change_root_dir"
    /\ err["c1"].op = "umount2"
    /\ ppc["c1"] = "print"

----------------------------------------------------------------------------
\* Where the device nodes and the symlinks land

\* The names _init_devices creates in dev.
DevNames ==
    {Symlinks[i].name : i \in 1..Len(Symlinks)} \cup {Devices[i].name : i \in 1..Len(Devices)}

\* C18: every os.symlink and os.mknod of a launch comes after its tmpfs
\* was mounted on rootfs/dev, what they create is in that tmpfs, and
\* neither the upper layer cow_rw nor the directory under the overlay holds
\* any of the names.
C18_DevicesInTmpfs ==
    \A l \in ContainerIds :
        /\ \A name \in DevNames :
               /\ ContainerDir(l).rw_dir \o <<"dev", name>> \notin disk
               /\ ContainerDir(l).root_dir \o <<"dev", name>> \notin disk
               /\ ImageRoot(params[l].image) \o <<"dev", name>> \notin disk
        /\ \A i \in 1..Len(calls[l]) :
               calls[l][i].op \in {"symlink", "mknod"} =>
                   /\ \E j \in 1..(i - 1) :
                          /\ calls[l][j].op = "mount_tmpfs"
                          /\ calls[l][j].res = "ok"
                          /\ calls[l][j].path = CONTAINER_DATA_DIR \o <<l, "rootfs", "dev">>
                   /\ Len(calls[l][i].path) = Len(CONTAINER_DATA_DIR) + 4
                   /\ Prefix(calls[l][i].path, Len(CONTAINER_DATA_DIR) + 3)
                          = CONTAINER_DATA_DIR \o <<l, "rootfs", "dev">>
                   /\ calls[l][i].res = "ok" =>
                          \E n \in tmpfs[l] :
                              /\ n.path = <<calls[l][i].path[Len(calls[l][i].path)]>>
                              /\ n.kind = IF calls[l][i].op = "mknod" THEN "chr" ELSE "symlink"

\* C18 witness: the four symlinks and the seven device nodes are in the
\* tmpfs of a launch that had to make rootfs/dev in its upper layer.
C18_Witness ==
    /\ Cardinality({n \in tmpfs["c1"] : n.kind \in {"chr", "symlink"}})
          = Len(Symlinks) + Len(Devices)
    /\ ContainerDir("c1").rw_dir \o <<"dev">> \in disk
    /\ \E m \in mnt["c1"] : m.fstype = "tmpfs" /\ m.by = "c1"

----------------------------------------------------------------------------
\* old_root

\* The old_root directory of launch l, as the child names it before the pivot.
OldRoot(l) == CONTAINER_DATA_DIR \o <<l, "rootfs", "old_root">>

\* C19: each pivot_root follows at once on the os.makedirs that made
\* rootfs/old_root in this launch; and when the directory is already in the
\* merged root (here: in the image), os.makedirs fails (with
\* FileExistsError, unless mkdir fails for another reason first), the child
\* exits, and pivot_root, chdir, umount2 and rmdir are not called.
C19_OldRootIsFresh ==
    \A l \in ContainerIds :
        /\ \A i \in 1..Len(calls[l]) :
               calls[l][i].op = "pivot_root" =>
                   /\ i > 1
                   /\ calls[l][i - 1].op = "mkdir"
                   /\ calls[l][i - 1].res = "ok"
                   /\ calls[l][i - 1].fn = "_change_root_dir"
                   /\ calls[l][i - 1].path = OldRoot(l)
                   /\ ImageRoot(params[l].image) \o <<"old_root">> \notin disk
        /\ \A i \in 1..Len(calls[l]) :
               (/\ calls[l][i].op = "mkdir"
                /\ calls[l][i].path = OldRoot(l)
                /\ ImageRoot(params[l].image) \o <<"old_root">> \in disk) =>
                   /\ calls[l][i].res = "failed"
                   /\ \A j \in (i + 1)..Len(calls[l]) : calls[l][j].by # "child"
                   /\ err[l].exc \in {"FileExistsError", "OSError"}
                   /\ err[l].op = "mkdir"
                   /\ err[l].fn = "_change_root_dir"
                   /\ cpc[l] = "exited"
                   /\ term[l] = Exit(255)
                   /\ ContainerDir(l).rw_dir \o <<"old_root">> \notin disk

\* C19 witness: a launch of an image that has an old_root directory has
\* failed in the os.makedirs of the root switch.
C19_Witness ==
    /\ ImageRoot(params["c1"].image) \o <<"old_root">> \in disk
    /\ err["c1"].errno = "EEXIST"
    /\ err["c1"].fn = "_change_root_dir"
    /\ \A i \in 1..Len(calls["c1"]) :
           calls["c1"][i].op \notin {"pivot_root", "chdir", "umount2", "rmdir"}

============================================================================
